---- MODULE Spec2Model ----
(***************************************************************************)
(* Model of mobile/roots_gen.go: the generator that reconciles the vendor  *)
(* trust-list page with the local root store and writes the bundle file.   *)
(*                                                                         *)
(* Text is a sequence of tokens.  An HTML tag that the program searches    *)
(* for ("<tr>", "</div>", the anchor ...) is one token; the text of a      *)
(* table cell is a sequence of one-character tokens, so that the           *)
(* strings.ReplaceAll / strings.ToLower chain works on characters.         *)
(***************************************************************************)
EXTENDS Integers, Sequences, FiniteSets, TLC

VARIABLES pc, err, status, text, idx, cols, ids, exported, out, scerts,
          certs, warnings, buf, source, file

vars == <<pc, err, status, text, idx, cols, ids, exported, out, scerts,
          certs, warnings, buf, source, file>>

\* ------------------------------------------------------------------ bounds
MaxRows == 2
MaxBlocks == 2

\* --------------------------------------------------------------- constants
allowedCAs ==
  { "CN=AddTrust Class 1 CA Root,OU=AddTrust TTP Network,O=AddTrust AB,C=SE",
    "CN=AddTrust External CA Root,OU=AddTrust External TTP Network,O=AddTrust AB,C=SE",
    "CN=COMODO Certification Authority,O=COMODO CA Limited,L=Salford,ST=Greater Manchester,C=GB",
    "CN=COMODO ECC Certification Authority,O=COMODO CA Limited,L=Salford,ST=Greater Manchester,C=GB",
    "CN=COMODO RSA Certification Authority,O=COMODO CA Limited,L=Salford,ST=Greater Manchester,C=GB",
    "CN=DigiCert Global Root CA,OU=www.digicert.com,O=DigiCert Inc,C=US",
    "CN=DigiCert Global Root G2,OU=www.digicert.com,O=DigiCert Inc,C=US",
    "CN=DigiCert Global Root G3,OU=www.digicert.com,O=DigiCert Inc,C=US",
    "CN=DigiCert High Assurance EV Root CA,OU=www.digicert.com,O=DigiCert Inc,C=US",
    "CN=DigiCert Trusted Root G4,OU=www.digicert.com,O=DigiCert Inc,C=US",
    "CN=DST Root CA X3,O=Digital Signature Trust Co.",
    "CN=DST Root CA X4,O=Digital Signature Trust Co.",
    "CN=ISRG Root X1,O=Internet Security Research Group,C=US",
    "CN=GlobalSign Root CA,OU=Root CA,O=GlobalSign nv-sa,C=BE",
    "CN=GlobalSign,OU=GlobalSign ECC Root CA - R4,O=GlobalSign",
    "CN=GlobalSign,OU=GlobalSign ECC Root CA - R5,O=GlobalSign",
    "CN=GlobalSign,OU=GlobalSign Root CA - R2,O=GlobalSign",
    "CN=GlobalSign,OU=GlobalSign Root CA - R3,O=GlobalSign",
    "OU=Go Daddy Class 2 Certification Authority,O=The Go Daddy Group\\, Inc.,C=US",
    "CN=Go Daddy Root Certificate Authority - G2,O=GoDaddy.com\\, Inc.,L=Scottsdale,ST=Arizona,C=US" }

Anchor == "<div id=\"trusted\""
CloseDiv == "</div>"
NameLabel == <<"Certificate name">>
FingerprintLabel == <<"Fingerprint (SHA-256)">>

BrMarkup == <<"<", "b", "r", ">">>
NewLine == <<"\n">>
Space == <<" ">>
NbspMarkup == <<"&", "n", "b", "s", "p", ";">>

header == "\npackage mobile\n\n"

\* ------------------------------------------------------- string functions
\* strings.Index on a token sequence: 0-based position of the first
\* occurrence of tok, -1 when there is none.
IndexOf(s, tok) ==
  IF \E i \in 1..Len(s) : s[i] = tok
  THEN (CHOOSE i \in 1..Len(s) : s[i] = tok /\ \A j \in 1..(i-1) : s[j] # tok) - 1
  ELSE -1

\* Go slice expressions s[lo:] and s[:hi]; they panic when the bound is
\* outside 0..len(s).
SliceFromPanics(s, lo) == lo < 0 \/ lo > Len(s)
SliceFrom(s, lo) == SubSeq(s, lo + 1, Len(s))
SliceToPanics(s, hi) == hi < 0 \/ hi > Len(s)
SliceTo(s, hi) == SubSeq(s, 1, hi)

\* regexp "(?s)<open>(.*?)</open>" FindAllStringSubmatch: the contents of the
\* successive non-overlapping, non-greedy matches, left to right.
RECURSIVE FindAllSubmatch(_, _, _)
FindAllSubmatch(s, open, close) ==
  LET i == IndexOf(s, open) IN
  IF i = -1 THEN <<>>
  ELSE LET rest == SubSeq(s, i + 2, Len(s))
           j == IndexOf(rest, close)
       IN IF j = -1 THEN <<>>
          ELSE <<SubSeq(rest, 1, j)>>
               \o FindAllSubmatch(SubSeq(rest, j + 2, Len(rest)), open, close)

\* strings.ReplaceAll(s, old, ""): one left-to-right pass removing the
\* non-overlapping occurrences of old.
RECURSIVE ReplaceAll(_, _)
ReplaceAll(s, old) ==
  IF Len(s) < Len(old) THEN s
  ELSE IF SubSeq(s, 1, Len(old)) = old
       THEN ReplaceAll(SubSeq(s, Len(old) + 1, Len(s)), old)
       ELSE <<Head(s)>> \o ReplaceAll(Tail(s), old)

UpperLetters == <<"A","B","C","D","E","F","G","H","I","J","K","L","M",
                  "N","O","P","Q","R","S","T","U","V","W","X","Y","Z">>
LowerLetters == <<"a","b","c","d","e","f","g","h","i","j","k","l","m",
                  "n","o","p","q","r","s","t","u","v","w","x","y","z">>

IsUpper(c) == \E i \in DOMAIN UpperLetters : UpperLetters[i] = c

ToLowerRune(c) ==
  IF IsUpper(c)
  THEN LowerLetters[CHOOSE i \in DOMAIN UpperLetters : UpperLetters[i] = c]
  ELSE c

\* strings.ToLower
ToLower(s) == [i \in DOMAIN s |-> ToLowerRune(s[i])]

\* The name cell: only the non-breaking-space markup is removed.
CleanName(cell) == ReplaceAll(cell, NbspMarkup)

\* The fingerprint cell: four removals in the order of the code, then
\* lower-casing.
NormalizeFingerprint(cell) ==
  ToLower(ReplaceAll(ReplaceAll(ReplaceAll(ReplaceAll(cell, BrMarkup),
                                           NewLine), Space), NbspMarkup))

\* ------------------------------------------------------------ certificates
\* The certificates the local store can hold: Raw is the DER encoding,
\* subject is what cert.Subject.String() returns.  CertA and CertB are on the
\* allow-list, CertC is a root that is trusted by the vendor but not listed.
CertA == [Raw |-> "derA",
          subject |-> "CN=ISRG Root X1,O=Internet Security Research Group,C=US"]
CertB == [Raw |-> "derB",
          subject |-> "CN=DST Root CA X3,O=Digital Signature Trust Co."]
CertC == [Raw |-> "derC",
          subject |-> "CN=Example Root CA,O=Example Trust Services,C=US"]
Certificates == {CertA, CertB, CertC}

\* x509.ParseCertificate: succeeds exactly on the DER of a certificate.
ParseCertificateOK(bytes) == \E c \in Certificates : c.Raw = bytes
ParseCertificate(bytes) == CHOOSE c \in Certificates : c.Raw = bytes

\* hex.EncodeToString(sha256.Sum256(raw)): lower-case hex, one digest per
\* encoding (shortened to two digits).
Sum256Hex(raw) ==
  CASE raw = "derA" -> <<"a", "1">>
    [] raw = "derB" -> <<"b", "2">>
    [] raw = "derC" -> <<"c", "3">>

SubjectString(cert) == cert.subject

\* ------------------------------------------------ the local store's export
\* What /usr/bin/security prints: PEM blocks, possibly with text that is no
\* PEM block between or after them.
PemBlock(type, headers, bytes) ==
  [pem |-> TRUE, Type |-> type, Headers |-> headers, Bytes |-> bytes]
NonPemText == [pem |-> FALSE, Type |-> "", Headers |-> {}, Bytes |-> ""]

ValidBlocks == {PemBlock("CERTIFICATE", {}, c.Raw) : c \in Certificates}
SkippedBlocks == { PemBlock("X509 CRL", {}, "derA"),
                   PemBlock("CERTIFICATE", {"Proc-Type"}, "derB"),
                   PemBlock("CERTIFICATE", {}, "truncated") }
StreamItems == ValidBlocks \cup SkippedBlocks \cup {NonPemText}

SeqsUpTo(S, n) == UNION {[1..k -> S] : k \in 0..n}

ExportStreams == SeqsUpTo(StreamItems, MaxBlocks)

\* pem.Decode: the next PEM block and the rest of the input; block "nil"
\* (found = FALSE) when the input holds no further block.
RECURSIVE PemDecode(_)
PemDecode(data) ==
  IF data = <<>> THEN [found |-> FALSE, block |-> NonPemText, rest |-> <<>>]
  ELSE IF Head(data).pem
       THEN [found |-> TRUE, block |-> Head(data), rest |-> Tail(data)]
       ELSE PemDecode(Tail(data))

MapSet(m, k, v) == [x \in DOMAIN m \cup {k} |-> IF x = k THEN v ELSE m[x]]

\* A mutant of SysCertsStep: the header test is inverted.
SysCertsStepInverted(m, block) ==
  IF block.Type # "CERTIFICATE" \/ block.Headers = {} THEN m
  ELSE IF ~ParseCertificateOK(block.Bytes) THEN m
  ELSE LET cert == ParseCertificate(block.Bytes)
       IN MapSet(m, Sum256Hex(cert.Raw), cert)

\* One iteration of the loop of sysCerts, after a block was decoded.
SysCertsStep(m, block) ==
  IF block.Type # "CERTIFICATE" \/ block.Headers # {} THEN m
  ELSE IF ~ParseCertificateOK(block.Bytes) THEN m
  ELSE LET cert == ParseCertificate(block.Bytes)
       IN MapSet(m, Sum256Hex(cert.Raw), cert)

\* The loop of sysCerts.
RECURSIVE SysCertsLoop(_, _)
SysCertsLoop(data, m) ==
  IF Len(data) = 0 THEN m
  ELSE LET d == PemDecode(data)
       IN IF ~d.found THEN m
          ELSE SysCertsLoop(d.rest, SysCertsStep(m, d.block))

\* ------------------------------------------------------ the vendor's page
NameCells == << <<"R", "1">>, <<"R", "2">>,
                <<"R", "&", "n", "b", "s", "p", ";", "3">>, <<"R", "4">> >>
FingerprintCells == << <<"A", "1">>, <<"b", " ", "2">>, <<"c", "\n", "3">>,
                       <<"<", "b", " ", "r", ">", "d", "4">> >>

\* A table row: <<name cell, fingerprint cell>>, or a row with one cell only.
FullRows == {<<NameCells[i], FingerprintCells[i]>> : i \in DOMAIN NameCells}
ShortRow == << <<"R", "5">> >>
RowOptions == FullRows \cup {ShortRow}

NameFirst == <<NameLabel, FingerprintLabel>>
FingerprintFirst == <<FingerprintLabel, NameLabel>>
NoFingerprintColumn == <<NameLabel, <<"Issued by">>>>
Headers == {NameFirst, FingerprintFirst, NoFingerprintColumn}

Reverse(s) == [i \in DOMAIN s |-> s[Len(s) + 1 - i]]

\* The cells of a row in the column order of the header.
RowCells(head, row) == IF head = FingerprintFirst THEN Reverse(row) ELSE row

RECURSIVE RenderCells(_, _, _)
RenderCells(cells, open, close) ==
  IF cells = <<>> THEN <<>>
  ELSE <<open>> \o Head(cells) \o <<close>>
       \o RenderCells(Tail(cells), open, close)

RenderRow(cells, open, close) ==
  <<"<tr>">> \o RenderCells(cells, open, close) \o <<"</tr>">>

RECURSIVE RenderRows(_, _)
RenderRows(head, rows) ==
  IF rows = <<>> THEN <<>>
  ELSE RenderRow(RowCells(head, Head(rows)), "<td>", "</td>")
       \o RenderRows(head, Tail(rows))

DocShapes == [anchor : BOOLEAN, close : BOOLEAN, head : Headers,
              rows : SeqsUpTo(RowOptions, MaxRows)]

Document(d) ==
  <<"<html>">>
  \o (IF d.anchor THEN <<Anchor>> ELSE <<"<div>">>)
  \o <<"<table>">>
  \o RenderRow(d.head, "<th>", "</th>")
  \o RenderRows(d.head, d.rows)
  \o <<"</table>">>
  \o (IF d.close THEN <<CloseDiv>> ELSE <<>>)
  \o <<"</html>">>

Documents == {Document(d) : d \in DocShapes}

StatusCodes == {200, 404}

\* ---------------------------------------------------- parsing of the page
\* A mutant of AnchorIndex: a missing anchor is taken to be at the start.
AnchorIndexClamped(s) ==
  IF IndexOf(s, Anchor) = -1 THEN 0 ELSE IndexOf(s, Anchor)

AnchorIndex(s) == IndexOf(s, Anchor)

\* The header row: cols[match[1]] = i, a later equal label overwriting.
HeaderCols(row) ==
  LET ths == FindAllSubmatch(row, "<th>", "</th>")
  IN [k \in {ths[i] : i \in DOMAIN ths} |->
        (CHOOSE i \in DOMAIN ths :
            ths[i] = k /\ \A j \in DOMAIN ths : j > i => ths[j] # k) - 1]

\* Reading a Go map: the zero value when the key is absent.
MapIndex(m, k) == IF k \in DOMAIN m THEN m[k] ELSE 0

RowValues(row) == FindAllSubmatch(row, "<td>", "</td>")

\* values[cols[...]] panics when the index is not below len(values).
RowPanics(c, row) ==
  \/ MapIndex(c, NameLabel) >= Len(RowValues(row))
  \/ MapIndex(c, FingerprintLabel) >= Len(RowValues(row))

CertIDOf(c, row) ==
  [name |-> CleanName(RowValues(row)[MapIndex(c, NameLabel) + 1]),
   fingerprint |->
     NormalizeFingerprint(RowValues(row)[MapIndex(c, FingerprintLabel) + 1])]

TableRows(section) == FindAllSubmatch(section, "<tr>", "</tr>")

TableCols(section) ==
  IF TableRows(section) = <<>> THEN <<>> ELSE HeaderCols(TableRows(section)[1])

TablePanics(section) ==
  \E i \in 2..Len(TableRows(section)) :
      RowPanics(TableCols(section), TableRows(section)[i])

TableIDs(section) ==
  [i \in 1..(Len(TableRows(section)) - 1) |->
      CertIDOf(TableCols(section), TableRows(section)[i + 1])]

\* ----------------------------------------------------------- reconciliation
NoResult == [certs |-> <<>>, warnings |-> <<>>]

\* Mutants of SelectStep: a miss prints nothing; a hit is put in front; a hit
\* is appended twice.
SelectStepSilent(acc, id, m) ==
  IF id.fingerprint \in DOMAIN m
  THEN [acc EXCEPT !.certs = Append(@, m[id.fingerprint])]
  ELSE acc

SelectStepPrepend(acc, id, m) ==
  IF id.fingerprint \in DOMAIN m
  THEN [acc EXCEPT !.certs = <<m[id.fingerprint]>> \o @]
  ELSE [acc EXCEPT !.warnings = Append(@, id)]

SelectStepTwice(acc, id, m) ==
  IF id.fingerprint \in DOMAIN m
  THEN [acc EXCEPT !.certs = Append(Append(@, m[id.fingerprint]),
                                    m[id.fingerprint])]
  ELSE [acc EXCEPT !.warnings = Append(@, id)]

\* One iteration of the loop of selectCerts.
SelectStep(acc, id, m) ==
  IF id.fingerprint \in DOMAIN m
  THEN [acc EXCEPT !.certs = Append(@, m[id.fingerprint])]
  ELSE [acc EXCEPT !.warnings = Append(@, id)]

RECURSIVE SelectLoop(_, _, _)
SelectLoop(entries, m, acc) ==
  IF entries = <<>> THEN acc
  ELSE SelectLoop(Tail(entries), m, SelectStep(acc, Head(entries), m))

\* ----------------------------------------------------------------- emission
\* The buffer and the file are sequences of pieces: a piece of text, or the
\* PEM encoding of a certificate.
TextPiece(s) == [pem |-> FALSE, v |-> s]
PemEncode(raw) == [pem |-> TRUE, v |-> raw]

\* The back quote that closes the string literal of the generated file.
ClosingQuote == TextPiece("back quote")

Preamble == << TextPiece("// Code generated by roots_gen --output; DO NOT EDIT.\n"),
               TextPiece(header),
               TextPiece("const systemRootsPEM = \n") >>

\* A mutant of IsAllowed: every subject passes.
IsAllowedAny(subjectName) == TRUE

IsAllowed(subjectName) == subjectName \in allowedCAs

\* One iteration of the loop of main.
EmitStep(b, cert) ==
  IF IsAllowed(SubjectString(cert)) THEN Append(b, PemEncode(cert.Raw)) ELSE b

RECURSIVE EmitLoop(_, _)
EmitLoop(cs, b) ==
  IF cs = <<>> THEN b ELSE EmitLoop(Tail(cs), EmitStep(b, Head(cs)))

OldFile == <<TextPiece("previous contents")>>

\* ------------------------------------------------------------ state machine
Init ==
  /\ pc = "start"
  /\ err = ""
  /\ status = 0
  /\ text = <<>>
  /\ idx = 0
  /\ cols = <<>>
  /\ ids = <<>>
  /\ exported = FALSE
  /\ out = <<>>
  /\ scerts = <<>>
  /\ certs = <<>>
  /\ warnings = <<>>
  /\ buf = <<>>
  /\ source = <<>>
  /\ file = OldFile

Fatal(kind) == pc' = "fatal" /\ err' = kind

\* http.Get returns a response (of any status) and ioutil.ReadAll its body.
Fetch ==
  /\ pc = "start"
  /\ \E code \in StatusCodes, body \in Documents :
        /\ status' = code
        /\ text' = body
  /\ pc' = "parse"
  /\ UNCHANGED <<err, idx, cols, ids, exported, out, scerts, certs, warnings,
                 buf, source, file>>

\* http.Get fails.
FetchTransportError ==
  /\ pc = "start"
  /\ Fatal("transport")
  /\ UNCHANGED <<status, text, idx, cols, ids, exported, out, scerts, certs,
                 warnings, buf, source, file>>

\* ioutil.ReadAll fails after http.Get returned a response.
FetchReadError ==
  /\ pc = "start"
  /\ \E code \in StatusCodes : status' = code
  /\ Fatal("read")
  /\ UNCHANGED <<text, idx, cols, ids, exported, out, scerts, certs, warnings,
                 buf, source, file>>

\* The rest of fetchCertIDs: cut the section out, parse the table.
ParseDocument ==
  /\ pc = "parse"
  /\ LET i == AnchorIndex(text) IN
     /\ idx' = i
     /\ IF SliceFromPanics(text, i)
        THEN Fatal("panic") /\ UNCHANGED <<text, cols, ids>>
        ELSE LET t == SliceFrom(text, i)
                 j == IndexOf(t, CloseDiv)
             IN IF SliceToPanics(t, j)
                THEN Fatal("panic") /\ text' = t /\ UNCHANGED <<cols, ids>>
                ELSE LET section == SliceTo(t, j) IN
                     /\ text' = section
                     /\ cols' = TableCols(section)
                     /\ IF TablePanics(section)
                        THEN Fatal("panic") /\ UNCHANGED ids
                        ELSE /\ ids' = TableIDs(section)
                             /\ pc' = "sysCerts"
                             /\ UNCHANGED err
  /\ UNCHANGED <<status, exported, out, scerts, certs, warnings, buf, source,
                 file>>

\* sysCerts: the export command runs and its output is scanned.
SysCerts ==
  /\ pc = "sysCerts"
  /\ exported' = TRUE
  /\ \E data \in ExportStreams :
        /\ out' = data
        /\ scerts' = SysCertsLoop(data, <<>>)
  /\ pc' = "select"
  /\ UNCHANGED <<err, status, text, idx, cols, ids, certs, warnings, buf,
                 source, file>>

\* sysCerts: the export command fails.
SysCertsExportError ==
  /\ pc = "sysCerts"
  /\ exported' = TRUE
  /\ Fatal("export")
  /\ UNCHANGED <<status, text, idx, cols, ids, out, scerts, certs, warnings,
                 buf, source, file>>

\* The loop of selectCerts and its return.
SelectCerts ==
  /\ pc = "select"
  /\ certs' = SelectLoop(ids, scerts, NoResult).certs
  /\ warnings' = SelectLoop(ids, scerts, NoResult).warnings
  /\ pc' = "emit"
  /\ UNCHANGED <<err, status, text, idx, cols, ids, exported, out, scerts,
                 buf, source, file>>

\* main fills the buffer.
Emit ==
  /\ pc = "emit"
  /\ buf' = EmitLoop(certs, Preamble) \o <<ClosingQuote>>
  /\ pc' = "format"
  /\ UNCHANGED <<err, status, text, idx, cols, ids, exported, out, scerts,
                 certs, warnings, source, file>>

\* pem.Encode returns an error (it is called only for an allowed subject).
EmitEncodeError ==
  /\ pc = "emit"
  /\ \E i \in DOMAIN certs : IsAllowed(SubjectString(certs[i]))
  /\ Fatal("encode")
  /\ UNCHANGED <<status, text, idx, cols, ids, exported, out, scerts, certs,
                 warnings, buf, source, file>>

\* format.Source succeeds: the formatted text holds the same pieces.
FormatSource ==
  /\ pc = "format"
  /\ source' = buf
  /\ pc' = "write"
  /\ UNCHANGED <<err, status, text, idx, cols, ids, exported, out, scerts,
                 certs, warnings, buf, file>>

FormatSourceError ==
  /\ pc = "format"
  /\ Fatal("format")
  /\ UNCHANGED <<status, text, idx, cols, ids, exported, out, scerts, certs,
                 warnings, buf, source, file>>

\* ioutil.WriteFile succeeds: the file is truncated, then holds the source.
WriteFile ==
  /\ pc = "write"
  /\ file' = source
  /\ pc' = "done"
  /\ UNCHANGED <<err, status, text, idx, cols, ids, exported, out, scerts,
                 certs, warnings, buf, source>>

\* ioutil.WriteFile cannot open the file: nothing was touched.
WriteFileOpenError ==
  /\ pc = "write"
  /\ Fatal("write")
  /\ UNCHANGED <<status, text, idx, cols, ids, exported, out, scerts, certs,
                 warnings, buf, source, file>>

\* ioutil.WriteFile opened the file with O_TRUNC and the write or the close
\* then fails: the file holds a proper prefix of the source.
WriteFileWriteError ==
  /\ pc = "write"
  /\ \E n \in 0..(Len(source) - 1) : file' = SubSeq(source, 1, n)
  /\ Fatal("write")
  /\ UNCHANGED <<status, text, idx, cols, ids, exported, out, scerts, certs,
                 warnings, buf, source>>

Next ==
  \/ Fetch
  \/ FetchTransportError
  \/ FetchReadError
  \/ ParseDocument
  \/ SysCerts
  \/ SysCertsExportError
  \/ SelectCerts
  \/ Emit
  \/ EmitEncodeError
  \/ FormatSource
  \/ FormatSourceError
  \/ WriteFile
  \/ WriteFileOpenError
  \/ WriteFileWriteError

Spec == Init /\ [][Next]_vars

\* ------------------------------------------------------------- properties
\* The raw encodings of the certificates in a buffer or file, in order.
PemPieces(pieces) == SelectSeq(pieces, LAMBDA x : x.pem)
Bundle(pieces) == [i \in DOMAIN PemPieces(pieces) |-> PemPieces(pieces)[i].v]
Range(s) == {s[i] : i \in DOMAIN s}

Matched == {i \in DOMAIN ids : ids[i].fingerprint \in DOMAIN scerts}
Contains(s, sub) ==
  \E i \in 1..(Len(s) - Len(sub) + 1) : SubSeq(s, i, i + Len(sub) - 1) = sub

Succeeded == pc = "done"
AfterFetch == pc \notin {"start", "parse"}
AfterSelect ==
  \/ pc \in {"emit", "format", "write", "done"}
  \/ pc = "fatal" /\ err \in {"encode", "format", "write"}
AfterSysCerts == pc = "select" \/ AfterSelect

\* C1: on a successful run the certificates written are exactly those that a
\* remote entry's fingerprint maps to in the index and whose subject string is
\* on the allow-list.
C1_ExactSelection ==
  Succeeded =>
    Range(Bundle(file))
      = {c.Raw : c \in {d \in {scerts[ids[i].fingerprint] : i \in Matched} :
                           d.subject \in allowedCAs}}

\* C1 witness: a finished run that wrote CertA and dropped the reconciled but
\* unlisted CertC.
C1_Witness ==
  /\ Succeeded
  /\ "derA" \in Range(Bundle(file))
  /\ CertC \in Range(certs)

\* C2: the loop of selectCerts never fails, and afterwards the certificates
\* plus the warnings are as many as the entries, every entry giving one of them.
C2_EveryEntryAccounted ==
  /\ [](AfterSelect =>
          /\ Len(certs) + Len(warnings) = Len(ids)
          /\ Len(certs) = Cardinality(Matched)
          /\ \A i \in DOMAIN warnings :
                warnings[i].fingerprint \notin DOMAIN scerts)
  /\ [][pc = "select" => pc' = "emit" /\ err' = ""]_vars

\* C2 witness: the loop ended with a certificate appended and a warning printed.
C2_Witness == AfterSelect /\ Len(certs) >= 1 /\ Len(warnings) >= 1

\* C3 as stated: the final bundle holds no two entries with one fingerprint.
C3_NoDuplicateFingerprint ==
  Succeeded =>
    \A i, j \in DOMAIN Bundle(file) :
       i # j => Sum256Hex(Bundle(file)[i]) # Sum256Hex(Bundle(file)[j])

\* C3 amended: the final bundle holds a fingerprint at most as often as the
\* remote list holds rows that normalize to it.
C3_AtMostOncePerRow ==
  Succeeded =>
    \A c \in Certificates :
       Cardinality({i \in DOMAIN Bundle(file) : Bundle(file)[i] = c.Raw})
         <= Cardinality({i \in DOMAIN ids : ids[i].fingerprint = Sum256Hex(c.Raw)})

\* C3 witness: two rows with one fingerprint gave two equal bundle entries.
C3_Witness ==
  /\ Succeeded
  /\ Len(Bundle(file)) = 2
  /\ Bundle(file)[1] = Bundle(file)[2]

\* C4 as stated: a header row that lacks one of the two column labels makes
\* the run abort, with no entry list returned and no file written.
C4_MissingColumnAborts ==
  ( /\ AfterFetch
    /\ TableRows(text) # <<>>
    /\ ~({NameLabel, FingerprintLabel} \subseteq DOMAIN HeaderCols(TableRows(text)[1])) )
  => (pc = "fatal" /\ ids = <<>> /\ file = OldFile)

\* C5 as stated: a run that ends in a fatal error leaves the output file as
\* it was before the run.
C5_FatalLeavesFileUntouched == pc = "fatal" => file = OldFile

\* C6: a document without the anchor ends the run in failure before the local
\* store is exported and before any file is written.
C6_MissingAnchorAbortsEarly ==
  (status # 0 /\ err # "read" /\ IndexOf(text, Anchor) = -1) =>
     /\ pc = "parse" \/ (pc = "fatal" /\ err = "panic")
     /\ ~exported
     /\ file = OldFile

\* C6 witness: the run has ended on a document that has no anchor.
C6_Witness == pc = "fatal" /\ err = "panic" /\ idx = -1 /\ text # <<>>

\* C7: the certificates of the final bundle stand in the order of the remote
\* rows that produced them.
C7_OrderPreserved ==
  Succeeded =>
    \E f \in [DOMAIN Bundle(file) -> DOMAIN ids] :
       /\ \A i, j \in DOMAIN f : i < j => f[i] < f[j]
       /\ \A i \in DOMAIN f :
             /\ f[i] \in Matched
             /\ scerts[ids[f[i]].fingerprint].Raw = Bundle(file)[i]

\* C7 witness: a bundle of two different certificates.
C7_Witness ==
  /\ Succeeded
  /\ Len(Bundle(file)) = 2
  /\ Bundle(file)[1] # Bundle(file)[2]

\* C8 as stated: a response with a non-success status aborts the run, its
\* body is not parsed into entries and no file is written.
C8_NonSuccessStatusAborts ==
  (AfterFetch /\ status \notin 200..299) =>
     (pc = "fatal" /\ ids = <<>> /\ file = OldFile)

\* C9 as stated: a stored fingerprint holds no line break, no space, no "<br>",
\* no "&nbsp;" and no upper-case letter.
C9_FingerprintNormalized ==
  \A i \in DOMAIN ids :
     /\ ~Contains(ids[i].fingerprint, NewLine)
     /\ ~Contains(ids[i].fingerprint, Space)
     /\ ~Contains(ids[i].fingerprint, BrMarkup)
     /\ ~Contains(ids[i].fingerprint, NbspMarkup)
     /\ \A k \in DOMAIN ids[i].fingerprint : ~IsUpper(ids[i].fingerprint[k])

\* C10: the index built from the export holds every valid bare certificate of
\* the stream, under its fingerprint, and nothing else; skipped blocks do not
\* end the scan.
C10_IndexOfValidBlocks ==
  AfterSysCerts =>
    /\ DOMAIN scerts
         = {Sum256Hex(out[i].Bytes) : i \in {j \in DOMAIN out : out[j] \in ValidBlocks}}
    /\ \A k \in DOMAIN scerts :
          /\ Sum256Hex(scerts[k].Raw) = k
          /\ \E i \in DOMAIN out :
                out[i] \in ValidBlocks /\ out[i].Bytes = scerts[k].Raw

\* C10 witness: a valid certificate that came after a skipped block is indexed.
C10_Witness ==
  /\ AfterSysCerts
  /\ \E i, j \in DOMAIN out :
        /\ i < j
        /\ out[i] \in SkippedBlocks
        /\ out[j] \in ValidBlocks
        /\ Sum256Hex(out[j].Bytes) \in DOMAIN scerts

====
